---- MODULE Spec2Model ----
(***************************************************************************)
(* The composite specification algebra of profit_calc/specifications.py:   *)
(* leaf predicates over a candidate record, the And / Or / Xor / Invert    *)
(* combinators with their in-place flattening, is_satisfied_by and         *)
(* remainder_unsatisfied_by.                                               *)
(*                                                                         *)
(* Objects live in a heap: heap[n] is the object whose identity is n, so   *)
(* that sharing, in-place extension and "the node itself" are expressible. *)
(* Python booleans, None and raised exceptions are written as strings      *)
(* ("True", "False", "None", "KeyError", "RecursionError").                *)
(***************************************************************************)
EXTENDS Integers, Sequences, FiniteSets, TLC

\* ------------------------------------------------------------------ bounds
\* objects a heap may hold
MaxNodes == 4
\* longest child list an And / Or may reach
MaxLen == 3

\* arguments given to And(...) / Or(...) called directly
MaxArgs == 1

\* tenure leaves constructed, clock advances
MaxTenure == 1
MaxTicks == 2

\* salary leaves constructed
MaxSalary == 1

\* nodes concurrent remainder calls may allocate
MaxFresh == 1

\* heap:   the objects, by identity
\* ret:    the last call made by the single-threaded caller: its operation,
\*         receiver, operand, argument, and what it returned
\* now:    the clock pendulum.now() reads
\* seen:   the first result of each (tenure leaf, candidate) evaluation
\* call:   per concurrent caller, the call in progress or just returned
\* frames: per concurrent caller, its Python call stack
VARIABLES heap, ret, now, seen, call, frames

vars == <<heap, ret, now, seen, call, frames>>

\* ---------------------------------------------------------------- strings
\* A string is the sequence of its code points.
\* str.lower() maps every code point by the Unicode lowercase mapping
\* (Unicode 14.0.0): one code point to one, but for U+0130, which gives two,
\* and U+03A3, which gives U+03C2 in final position and U+03C3 elsewhere.

\* <<first, last, stride, delta>>: the code points first, first + stride, ..,
\* last have the lowercase code point delta further
ToLower ==
  {
   <<65, 90, 1, 32>>, <<192, 214, 1, 32>>, <<216, 222, 1, 32>>, <<256, 302, 2, 1>>,
   <<306, 310, 2, 1>>, <<313, 327, 2, 1>>, <<330, 374, 2, 1>>, <<376, 376, 1, -121>>,
   <<377, 381, 2, 1>>, <<385, 385, 1, 210>>, <<386, 388, 2, 1>>, <<390, 390, 1, 206>>,
   <<391, 391, 1, 1>>, <<393, 394, 1, 205>>, <<395, 395, 1, 1>>, <<398, 398, 1, 79>>,
   <<399, 399, 1, 202>>, <<400, 400, 1, 203>>, <<401, 401, 1, 1>>, <<403, 403, 1, 205>>,
   <<404, 404, 1, 207>>, <<406, 406, 1, 211>>, <<407, 407, 1, 209>>, <<408, 408, 1, 1>>,
   <<412, 412, 1, 211>>, <<413, 413, 1, 213>>, <<415, 415, 1, 214>>, <<416, 420, 2, 1>>,
   <<422, 422, 1, 218>>, <<423, 423, 1, 1>>, <<425, 425, 1, 218>>, <<428, 428, 1, 1>>,
   <<430, 430, 1, 218>>, <<431, 431, 1, 1>>, <<433, 434, 1, 217>>, <<435, 437, 2, 1>>,
   <<439, 439, 1, 219>>, <<440, 440, 1, 1>>, <<444, 444, 1, 1>>, <<452, 452, 1, 2>>,
   <<453, 453, 1, 1>>, <<455, 455, 1, 2>>, <<456, 456, 1, 1>>, <<458, 458, 1, 2>>,
   <<459, 475, 2, 1>>, <<478, 494, 2, 1>>, <<497, 497, 1, 2>>, <<498, 500, 2, 1>>,
   <<502, 502, 1, -97>>, <<503, 503, 1, -56>>, <<504, 542, 2, 1>>, <<544, 544, 1, -130>>,
   <<546, 562, 2, 1>>, <<570, 570, 1, 10795>>, <<571, 571, 1, 1>>, <<573, 573, 1, -163>>,
   <<574, 574, 1, 10792>>, <<577, 577, 1, 1>>, <<579, 579, 1, -195>>, <<580, 580, 1, 69>>,
   <<581, 581, 1, 71>>, <<582, 590, 2, 1>>, <<880, 882, 2, 1>>, <<886, 886, 1, 1>>,
   <<895, 895, 1, 116>>, <<902, 902, 1, 38>>, <<904, 906, 1, 37>>, <<908, 908, 1, 64>>,
   <<910, 911, 1, 63>>, <<913, 929, 1, 32>>, <<932, 939, 1, 32>>, <<975, 975, 1, 8>>,
   <<984, 1006, 2, 1>>, <<1012, 1012, 1, -60>>, <<1015, 1015, 1, 1>>, <<1017, 1017, 1, -7>>,
   <<1018, 1018, 1, 1>>, <<1021, 1023, 1, -130>>, <<1024, 1039, 1, 80>>, <<1040, 1071, 1, 32>>,
   <<1120, 1152, 2, 1>>, <<1162, 1214, 2, 1>>, <<1216, 1216, 1, 15>>, <<1217, 1229, 2, 1>>,
   <<1232, 1326, 2, 1>>, <<1329, 1366, 1, 48>>, <<4256, 4293, 1, 7264>>, <<4295, 4295, 1, 7264>>,
   <<4301, 4301, 1, 7264>>, <<5024, 5103, 1, 38864>>, <<5104, 5109, 1, 8>>, <<7312, 7354, 1, -3008>>,
   <<7357, 7359, 1, -3008>>, <<7680, 7828, 2, 1>>, <<7838, 7838, 1, -7615>>, <<7840, 7934, 2, 1>>,
   <<7944, 7951, 1, -8>>, <<7960, 7965, 1, -8>>, <<7976, 7983, 1, -8>>, <<7992, 7999, 1, -8>>,
   <<8008, 8013, 1, -8>>, <<8025, 8031, 2, -8>>, <<8040, 8047, 1, -8>>, <<8072, 8079, 1, -8>>,
   <<8088, 8095, 1, -8>>, <<8104, 8111, 1, -8>>, <<8120, 8121, 1, -8>>, <<8122, 8123, 1, -74>>,
   <<8124, 8124, 1, -9>>, <<8136, 8139, 1, -86>>, <<8140, 8140, 1, -9>>, <<8152, 8153, 1, -8>>,
   <<8154, 8155, 1, -100>>, <<8168, 8169, 1, -8>>, <<8170, 8171, 1, -112>>, <<8172, 8172, 1, -7>>,
   <<8184, 8185, 1, -128>>, <<8186, 8187, 1, -126>>, <<8188, 8188, 1, -9>>, <<8486, 8486, 1, -7517>>,
   <<8490, 8490, 1, -8383>>, <<8491, 8491, 1, -8262>>, <<8498, 8498, 1, 28>>, <<8544, 8559, 1, 16>>,
   <<8579, 8579, 1, 1>>, <<9398, 9423, 1, 26>>, <<11264, 11311, 1, 48>>, <<11360, 11360, 1, 1>>,
   <<11362, 11362, 1, -10743>>, <<11363, 11363, 1, -3814>>, <<11364, 11364, 1, -10727>>, <<11367, 11371, 2, 1>>,
   <<11373, 11373, 1, -10780>>, <<11374, 11374, 1, -10749>>, <<11375, 11375, 1, -10783>>, <<11376, 11376, 1, -10782>>,
   <<11378, 11378, 1, 1>>, <<11381, 11381, 1, 1>>, <<11390, 11391, 1, -10815>>, <<11392, 11490, 2, 1>>,
   <<11499, 11501, 2, 1>>, <<11506, 11506, 1, 1>>, <<42560, 42604, 2, 1>>, <<42624, 42650, 2, 1>>,
   <<42786, 42798, 2, 1>>, <<42802, 42862, 2, 1>>, <<42873, 42875, 2, 1>>, <<42877, 42877, 1, -35332>>,
   <<42878, 42886, 2, 1>>, <<42891, 42891, 1, 1>>, <<42893, 42893, 1, -42280>>, <<42896, 42898, 2, 1>>,
   <<42902, 42920, 2, 1>>, <<42922, 42922, 1, -42308>>, <<42923, 42923, 1, -42319>>, <<42924, 42924, 1, -42315>>,
   <<42925, 42925, 1, -42305>>, <<42926, 42926, 1, -42308>>, <<42928, 42928, 1, -42258>>, <<42929, 42929, 1, -42282>>,
   <<42930, 42930, 1, -42261>>, <<42931, 42931, 1, 928>>, <<42932, 42946, 2, 1>>, <<42948, 42948, 1, -48>>,
   <<42949, 42949, 1, -42307>>, <<42950, 42950, 1, -35384>>, <<42951, 42953, 2, 1>>, <<42960, 42960, 1, 1>>,
   <<42966, 42968, 2, 1>>, <<42997, 42997, 1, 1>>, <<65313, 65338, 1, 32>>, <<66560, 66599, 1, 40>>,
   <<66736, 66771, 1, 40>>, <<66928, 66938, 1, 39>>, <<66940, 66954, 1, 39>>, <<66956, 66962, 1, 39>>,
   <<66964, 66965, 1, 39>>, <<68736, 68786, 1, 64>>, <<71840, 71871, 1, 32>>, <<93760, 93791, 1, 32>>,
   <<125184, 125217, 1, 34>>
  }

\* the code points with the Cased property that are not Case_Ignorable
Cased ==
  {
   <<65, 90>>, <<97, 122>>, <<170, 170>>, <<181, 181>>, <<186, 186>>, <<192, 214>>,
   <<216, 246>>, <<248, 442>>, <<444, 447>>, <<452, 659>>, <<661, 687>>, <<880, 883>>,
   <<886, 887>>, <<891, 893>>, <<895, 895>>, <<902, 902>>, <<904, 906>>, <<908, 908>>,
   <<910, 929>>, <<931, 1013>>, <<1015, 1153>>, <<1162, 1327>>, <<1329, 1366>>, <<1376, 1416>>,
   <<4256, 4293>>, <<4295, 4295>>, <<4301, 4301>>, <<4304, 4346>>, <<4349, 4351>>, <<5024, 5109>>,
   <<5112, 5117>>, <<7296, 7304>>, <<7312, 7354>>, <<7357, 7359>>, <<7424, 7467>>, <<7531, 7543>>,
   <<7545, 7578>>, <<7680, 7957>>, <<7960, 7965>>, <<7968, 8005>>, <<8008, 8013>>, <<8016, 8023>>,
   <<8025, 8025>>, <<8027, 8027>>, <<8029, 8029>>, <<8031, 8061>>, <<8064, 8116>>, <<8118, 8124>>,
   <<8126, 8126>>, <<8130, 8132>>, <<8134, 8140>>, <<8144, 8147>>, <<8150, 8155>>, <<8160, 8172>>,
   <<8178, 8180>>, <<8182, 8188>>, <<8450, 8450>>, <<8455, 8455>>, <<8458, 8467>>, <<8469, 8469>>,
   <<8473, 8477>>, <<8484, 8484>>, <<8486, 8486>>, <<8488, 8488>>, <<8490, 8493>>, <<8495, 8500>>,
   <<8505, 8505>>, <<8508, 8511>>, <<8517, 8521>>, <<8526, 8526>>, <<8544, 8575>>, <<8579, 8580>>,
   <<9398, 9449>>, <<11264, 11387>>, <<11390, 11492>>, <<11499, 11502>>, <<11506, 11507>>, <<11520, 11557>>,
   <<11559, 11559>>, <<11565, 11565>>, <<42560, 42605>>, <<42624, 42651>>, <<42786, 42863>>, <<42865, 42887>>,
   <<42891, 42894>>, <<42896, 42954>>, <<42960, 42961>>, <<42963, 42963>>, <<42965, 42969>>, <<42997, 42998>>,
   <<43002, 43002>>, <<43824, 43866>>, <<43872, 43880>>, <<43888, 43967>>, <<64256, 64262>>, <<64275, 64279>>,
   <<65313, 65338>>, <<65345, 65370>>, <<66560, 66639>>, <<66736, 66771>>, <<66776, 66811>>, <<66928, 66938>>,
   <<66940, 66954>>, <<66956, 66962>>, <<66964, 66965>>, <<66967, 66977>>, <<66979, 66993>>, <<66995, 67001>>,
   <<67003, 67004>>, <<68736, 68786>>, <<68800, 68850>>, <<71840, 71903>>, <<93760, 93823>>, <<119808, 119892>>,
   <<119894, 119964>>, <<119966, 119967>>, <<119970, 119970>>, <<119973, 119974>>, <<119977, 119980>>, <<119982, 119993>>,
   <<119995, 119995>>, <<119997, 120003>>, <<120005, 120069>>, <<120071, 120074>>, <<120077, 120084>>, <<120086, 120092>>,
   <<120094, 120121>>, <<120123, 120126>>, <<120128, 120132>>, <<120134, 120134>>, <<120138, 120144>>, <<120146, 120485>>,
   <<120488, 120512>>, <<120514, 120538>>, <<120540, 120570>>, <<120572, 120596>>, <<120598, 120628>>, <<120630, 120654>>,
   <<120656, 120686>>, <<120688, 120712>>, <<120714, 120744>>, <<120746, 120770>>, <<120772, 120779>>, <<122624, 122633>>,
   <<122635, 122654>>, <<125184, 125251>>, <<127280, 127305>>, <<127312, 127337>>, <<127344, 127369>>
  }

\* the code points with the Case_Ignorable property
CaseIgnorable ==
  {
   <<39, 39>>, <<46, 46>>, <<58, 58>>, <<94, 94>>, <<96, 96>>, <<168, 168>>,
   <<173, 173>>, <<175, 175>>, <<180, 180>>, <<183, 184>>, <<688, 879>>, <<884, 885>>,
   <<890, 890>>, <<900, 901>>, <<903, 903>>, <<1155, 1161>>, <<1369, 1369>>, <<1375, 1375>>,
   <<1425, 1469>>, <<1471, 1471>>, <<1473, 1474>>, <<1476, 1477>>, <<1479, 1479>>, <<1524, 1524>>,
   <<1536, 1541>>, <<1552, 1562>>, <<1564, 1564>>, <<1600, 1600>>, <<1611, 1631>>, <<1648, 1648>>,
   <<1750, 1757>>, <<1759, 1768>>, <<1770, 1773>>, <<1807, 1807>>, <<1809, 1809>>, <<1840, 1866>>,
   <<1958, 1968>>, <<2027, 2037>>, <<2042, 2042>>, <<2045, 2045>>, <<2070, 2093>>, <<2137, 2139>>,
   <<2184, 2184>>, <<2192, 2193>>, <<2200, 2207>>, <<2249, 2306>>, <<2362, 2362>>, <<2364, 2364>>,
   <<2369, 2376>>, <<2381, 2381>>, <<2385, 2391>>, <<2402, 2403>>, <<2417, 2417>>, <<2433, 2433>>,
   <<2492, 2492>>, <<2497, 2500>>, <<2509, 2509>>, <<2530, 2531>>, <<2558, 2558>>, <<2561, 2562>>,
   <<2620, 2620>>, <<2625, 2626>>, <<2631, 2632>>, <<2635, 2637>>, <<2641, 2641>>, <<2672, 2673>>,
   <<2677, 2677>>, <<2689, 2690>>, <<2748, 2748>>, <<2753, 2757>>, <<2759, 2760>>, <<2765, 2765>>,
   <<2786, 2787>>, <<2810, 2815>>, <<2817, 2817>>, <<2876, 2876>>, <<2879, 2879>>, <<2881, 2884>>,
   <<2893, 2893>>, <<2901, 2902>>, <<2914, 2915>>, <<2946, 2946>>, <<3008, 3008>>, <<3021, 3021>>,
   <<3072, 3072>>, <<3076, 3076>>, <<3132, 3132>>, <<3134, 3136>>, <<3142, 3144>>, <<3146, 3149>>,
   <<3157, 3158>>, <<3170, 3171>>, <<3201, 3201>>, <<3260, 3260>>, <<3263, 3263>>, <<3270, 3270>>,
   <<3276, 3277>>, <<3298, 3299>>, <<3328, 3329>>, <<3387, 3388>>, <<3393, 3396>>, <<3405, 3405>>,
   <<3426, 3427>>, <<3457, 3457>>, <<3530, 3530>>, <<3538, 3540>>, <<3542, 3542>>, <<3633, 3633>>,
   <<3636, 3642>>, <<3654, 3662>>, <<3761, 3761>>, <<3764, 3772>>, <<3782, 3782>>, <<3784, 3789>>,
   <<3864, 3865>>, <<3893, 3893>>, <<3895, 3895>>, <<3897, 3897>>, <<3953, 3966>>, <<3968, 3972>>,
   <<3974, 3975>>, <<3981, 3991>>, <<3993, 4028>>, <<4038, 4038>>, <<4141, 4144>>, <<4146, 4151>>,
   <<4153, 4154>>, <<4157, 4158>>, <<4184, 4185>>, <<4190, 4192>>, <<4209, 4212>>, <<4226, 4226>>,
   <<4229, 4230>>, <<4237, 4237>>, <<4253, 4253>>, <<4348, 4348>>, <<4957, 4959>>, <<5906, 5908>>,
   <<5938, 5939>>, <<5970, 5971>>, <<6002, 6003>>, <<6068, 6069>>, <<6071, 6077>>, <<6086, 6086>>,
   <<6089, 6099>>, <<6103, 6103>>, <<6109, 6109>>, <<6155, 6159>>, <<6211, 6211>>, <<6277, 6278>>,
   <<6313, 6313>>, <<6432, 6434>>, <<6439, 6440>>, <<6450, 6450>>, <<6457, 6459>>, <<6679, 6680>>,
   <<6683, 6683>>, <<6742, 6742>>, <<6744, 6750>>, <<6752, 6752>>, <<6754, 6754>>, <<6757, 6764>>,
   <<6771, 6780>>, <<6783, 6783>>, <<6823, 6823>>, <<6832, 6862>>, <<6912, 6915>>, <<6964, 6964>>,
   <<6966, 6970>>, <<6972, 6972>>, <<6978, 6978>>, <<7019, 7027>>, <<7040, 7041>>, <<7074, 7077>>,
   <<7080, 7081>>, <<7083, 7085>>, <<7142, 7142>>, <<7144, 7145>>, <<7149, 7149>>, <<7151, 7153>>,
   <<7212, 7219>>, <<7222, 7223>>, <<7288, 7293>>, <<7376, 7378>>, <<7380, 7392>>, <<7394, 7400>>,
   <<7405, 7405>>, <<7412, 7412>>, <<7416, 7417>>, <<7468, 7530>>, <<7544, 7544>>, <<7579, 7679>>,
   <<8125, 8125>>, <<8127, 8129>>, <<8141, 8143>>, <<8157, 8159>>, <<8173, 8175>>, <<8189, 8190>>,
   <<8203, 8207>>, <<8216, 8217>>, <<8228, 8228>>, <<8231, 8231>>, <<8234, 8238>>, <<8288, 8292>>,
   <<8294, 8303>>, <<8305, 8305>>, <<8319, 8319>>, <<8336, 8348>>, <<8400, 8432>>, <<11388, 11389>>,
   <<11503, 11505>>, <<11631, 11631>>, <<11647, 11647>>, <<11744, 11775>>, <<11823, 11823>>, <<12293, 12293>>,
   <<12330, 12333>>, <<12337, 12341>>, <<12347, 12347>>, <<12441, 12446>>, <<12540, 12542>>, <<40981, 40981>>,
   <<42232, 42237>>, <<42508, 42508>>, <<42607, 42610>>, <<42612, 42621>>, <<42623, 42623>>, <<42652, 42655>>,
   <<42736, 42737>>, <<42752, 42785>>, <<42864, 42864>>, <<42888, 42890>>, <<42994, 42996>>, <<43000, 43001>>,
   <<43010, 43010>>, <<43014, 43014>>, <<43019, 43019>>, <<43045, 43046>>, <<43052, 43052>>, <<43204, 43205>>,
   <<43232, 43249>>, <<43263, 43263>>, <<43302, 43309>>, <<43335, 43345>>, <<43392, 43394>>, <<43443, 43443>>,
   <<43446, 43449>>, <<43452, 43453>>, <<43471, 43471>>, <<43493, 43494>>, <<43561, 43566>>, <<43569, 43570>>,
   <<43573, 43574>>, <<43587, 43587>>, <<43596, 43596>>, <<43632, 43632>>, <<43644, 43644>>, <<43696, 43696>>,
   <<43698, 43700>>, <<43703, 43704>>, <<43710, 43711>>, <<43713, 43713>>, <<43741, 43741>>, <<43756, 43757>>,
   <<43763, 43764>>, <<43766, 43766>>, <<43867, 43871>>, <<43881, 43883>>, <<44005, 44005>>, <<44008, 44008>>,
   <<44013, 44013>>, <<64286, 64286>>, <<64434, 64450>>, <<65024, 65039>>, <<65043, 65043>>, <<65056, 65071>>,
   <<65106, 65106>>, <<65109, 65109>>, <<65279, 65279>>, <<65287, 65287>>, <<65294, 65294>>, <<65306, 65306>>,
   <<65342, 65342>>, <<65344, 65344>>, <<65392, 65392>>, <<65438, 65439>>, <<65507, 65507>>, <<65529, 65531>>,
   <<66045, 66045>>, <<66272, 66272>>, <<66422, 66426>>, <<67456, 67461>>, <<67463, 67504>>, <<67506, 67514>>,
   <<68097, 68099>>, <<68101, 68102>>, <<68108, 68111>>, <<68152, 68154>>, <<68159, 68159>>, <<68325, 68326>>,
   <<68900, 68903>>, <<69291, 69292>>, <<69446, 69456>>, <<69506, 69509>>, <<69633, 69633>>, <<69688, 69702>>,
   <<69744, 69744>>, <<69747, 69748>>, <<69759, 69761>>, <<69811, 69814>>, <<69817, 69818>>, <<69821, 69821>>,
   <<69826, 69826>>, <<69837, 69837>>, <<69888, 69890>>, <<69927, 69931>>, <<69933, 69940>>, <<70003, 70003>>,
   <<70016, 70017>>, <<70070, 70078>>, <<70089, 70092>>, <<70095, 70095>>, <<70191, 70193>>, <<70196, 70196>>,
   <<70198, 70199>>, <<70206, 70206>>, <<70367, 70367>>, <<70371, 70378>>, <<70400, 70401>>, <<70459, 70460>>,
   <<70464, 70464>>, <<70502, 70508>>, <<70512, 70516>>, <<70712, 70719>>, <<70722, 70724>>, <<70726, 70726>>,
   <<70750, 70750>>, <<70835, 70840>>, <<70842, 70842>>, <<70847, 70848>>, <<70850, 70851>>, <<71090, 71093>>,
   <<71100, 71101>>, <<71103, 71104>>, <<71132, 71133>>, <<71219, 71226>>, <<71229, 71229>>, <<71231, 71232>>,
   <<71339, 71339>>, <<71341, 71341>>, <<71344, 71349>>, <<71351, 71351>>, <<71453, 71455>>, <<71458, 71461>>,
   <<71463, 71467>>, <<71727, 71735>>, <<71737, 71738>>, <<71995, 71996>>, <<71998, 71998>>, <<72003, 72003>>,
   <<72148, 72151>>, <<72154, 72155>>, <<72160, 72160>>, <<72193, 72202>>, <<72243, 72248>>, <<72251, 72254>>,
   <<72263, 72263>>, <<72273, 72278>>, <<72281, 72283>>, <<72330, 72342>>, <<72344, 72345>>, <<72752, 72758>>,
   <<72760, 72765>>, <<72767, 72767>>, <<72850, 72871>>, <<72874, 72880>>, <<72882, 72883>>, <<72885, 72886>>,
   <<73009, 73014>>, <<73018, 73018>>, <<73020, 73021>>, <<73023, 73029>>, <<73031, 73031>>, <<73104, 73105>>,
   <<73109, 73109>>, <<73111, 73111>>, <<73459, 73460>>, <<78896, 78904>>, <<92912, 92916>>, <<92976, 92982>>,
   <<92992, 92995>>, <<94031, 94031>>, <<94095, 94111>>, <<94176, 94177>>, <<94179, 94180>>, <<110576, 110579>>,
   <<110581, 110587>>, <<110589, 110590>>, <<113821, 113822>>, <<113824, 113827>>, <<118528, 118573>>, <<118576, 118598>>,
   <<119143, 119145>>, <<119155, 119170>>, <<119173, 119179>>, <<119210, 119213>>, <<119362, 119364>>, <<121344, 121398>>,
   <<121403, 121452>>, <<121461, 121461>>, <<121476, 121476>>, <<121499, 121503>>, <<121505, 121519>>, <<122880, 122886>>,
   <<122888, 122904>>, <<122907, 122913>>, <<122915, 122916>>, <<122918, 122922>>, <<123184, 123197>>, <<123566, 123566>>,
   <<123628, 123631>>, <<125136, 125142>>, <<125252, 125259>>, <<127995, 127999>>, <<917505, 917505>>, <<917536, 917631>>,
   <<917760, 917999>>
  }

IsCased(c) == \E r \in Cased : r[1] <= c /\ c <= r[2]

IsCaseIgnorable(c) == \E r \in CaseIgnorable : r[1] <= c /\ c <= r[2]

\* U+03A3 at s[i] is final when a cased letter precedes it and none follows,
\* case-ignorable code points skipped on both sides
final_sigma(s, i) ==
  /\ \E j \in 1..(i - 1) :
       /\ ~IsCaseIgnorable(s[j])
       /\ IsCased(s[j])
       /\ \A k \in (j + 1)..(i - 1) : IsCaseIgnorable(s[k])
  /\ ~\E j \in (i + 1)..Len(s) :
       /\ ~IsCaseIgnorable(s[j])
       /\ IsCased(s[j])
       /\ \A k \in (i + 1)..(j - 1) : IsCaseIgnorable(s[k])

\* the lowercase of the code point s[i]
tolower(s, i) ==
  LET c == s[i]
      runs == {r \in ToLower : r[1] <= c /\ c <= r[2] /\ (c - r[1]) % r[3] = 0}
  IN  IF c < 128 THEN (IF c >= 65 /\ c <= 90 THEN <<c + 32>> ELSE <<c>>)
      ELSE IF c = 931 THEN (IF final_sigma(s, i) THEN <<962>> ELSE <<963>>)
      ELSE IF c = 304 THEN <<105, 775>>
      ELSE IF runs = {} THEN <<c>>
      ELSE <<c + (CHOOSE r \in runs : TRUE)[4]>>

RECURSIVE lower_from(_, _)
lower_from(s, i) ==
  IF i > Len(s) THEN <<>> ELSE tolower(s, i) \o lower_from(s, i + 1)

lower(s) == lower_from(s, 1)

diretoria == <<100, 105, 114, 101, 116, 111, 114, 105, 97>>
estagiario == <<101, 115, 116, 97, 103, 105, 97, 114, 105, 111>>
contabilidade == <<99, 111, 110, 116, 97, 98, 105, 108, 105, 100, 97, 100, 101>>
financeiro == <<102, 105, 110, 97, 110, 99, 101, 105, 114, 111>>
tecnologia == <<116, 101, 99, 110, 111, 108, 111, 103, 105, 97>>
servicos_gerais ==
  <<115, 101, 114, 118, 105, 231, 111, 115, 32, 103, 101, 114, 97, 105, 115>>
relacionamento_com_o_cliente ==
  <<114, 101, 108, 97, 99, 105, 111, 110, 97, 109, 101, 110, 116, 111, 32,
    99, 111, 109, 32, 111, 32, 99, 108, 105, 101, 110, 116, 101>>

\* "Tecnologia", "ESTAGIARIO", "Analista": candidate spellings
Tecnologia == <<84, 101, 99, 110, 111, 108, 111, 103, 105, 97>>
ESTAGIARIO == <<69, 83, 84, 65, 71, 73, 65, 82, 73, 79>>
Analista == <<65, 110, 97, 108, 105, 115, 116, 97>>

\* ------------------------------------------------------------ python values
Bool(b) == IF b THEN "True" ELSE "False"

Exceptions == {"KeyError", "RecursionError", "NotImplementedError"}

\* the first exception a list of evaluations raised, "" when none did
RECURSIVE Raised(_)
Raised(rs) ==
  IF rs = <<>> THEN ""
  ELSE IF Head(rs) \in Exceptions THEN Head(rs) ELSE Raised(Tail(rs))

\* ------------------------------------------------------------ leaf predicates
DepartmentKinds ==
  {"DirectorBoard", "AccountingDepartment", "FinancialDepartment",
   "ITDepartment", "FacilitiesDepartment", "CustomerExperienceDepartment"}

DepartmentName(kind) ==
  CASE kind = "DirectorBoard" -> diretoria
    [] kind = "AccountingDepartment" -> contabilidade
    [] kind = "FinancialDepartment" -> financeiro
    [] kind = "ITDepartment" -> tecnologia
    [] kind = "FacilitiesDepartment" -> servicos_gerais
    [] kind = "CustomerExperienceDepartment" -> relacionamento_com_o_cliente

\* candidate["area"].lower() == "<department>"
Department_is_satisfied_by(node, candidate) ==
  IF "area" \notin DOMAIN candidate THEN "KeyError"
  ELSE Bool(lower(candidate["area"]) = DepartmentName(node.kind))

\* candidate["cargo"].lower() == "estagiario"
Trainee_is_satisfied_by(node, candidate) ==
  IF "cargo" \notin DOMAIN candidate THEN "KeyError"
  ELSE Bool(lower(candidate["cargo"]) = estagiario)

\* ------------------------------------------------------------ salary leaves
\* Amounts are whole currency units.  BASE_SALARY: Decimal = Decimal("1045.0")
BASE_SALARY == 1045

\* significant digits of a Decimal result (the decimal context's precision)
prec == 28

\* A Decimal >= 0 is [int, frac]: its integer part and the digits after the
\* point, with no trailing zero.
Decimal_of(t) == [int |-> t, frac |-> <<>>]

\* number of decimal digits of n; 0 for 0
RECURSIVE NumDigits(_)
NumDigits(n) == IF n = 0 THEN 0 ELSE 1 + NumDigits(n \div 10)

\* the digits of r / b (r < b) after those of digits, until the quotient is
\* exact or has prec significant digits, sig of them so far; with the remainder
RECURSIVE LongDivision(_, _, _, _)
LongDivision(r, b, digits, sig) ==
  IF r = 0 \/ sig >= prec THEN [digits |-> digits, r |-> r]
  ELSE LET d == (10 * r) \div b
       IN  LongDivision((10 * r) % b, b, Append(digits, d),
                        IF sig > 0 \/ d > 0 THEN sig + 1 ELSE 0)

\* digits plus one unit in the last place, and the carry out of the first
RECURSIVE Increment(_)
Increment(digits) ==
  IF digits = <<>> THEN [digits |-> <<>>, carry |-> 1]
  ELSE LET n == Len(digits)
       IN  IF digits[n] < 9
           THEN [digits |-> [digits EXCEPT ![n] = digits[n] + 1], carry |-> 0]
           ELSE LET rest == Increment(SubSeq(digits, 1, n - 1))
                IN  [digits |-> Append(rest.digits, 0), carry |-> rest.carry]

\* digits without its trailing zeros
RECURSIVE Strip(_)
Strip(digits) ==
  IF digits # <<>> /\ digits[Len(digits)] = 0
  THEN Strip(SubSeq(digits, 1, Len(digits) - 1)) ELSE digits

\* Decimal division of a >= 0 by b > 0: the quotient when prec significant
\* digits hold it, else rounded half-even to prec significant digits
Decimal_div(a, b) ==
  LET q == a \div b
      long == LongDivision(a % b, b, <<>>, NumDigits(q))
      last == IF long.digits = <<>> THEN q % 10 ELSE long.digits[Len(long.digits)]
      up == 2 * long.r > b \/ (2 * long.r = b /\ last % 2 = 1)
      rounded == IF up THEN Increment(long.digits)
                 ELSE [digits |-> long.digits, carry |-> 0]
  IN  [int |-> q + rounded.carry, frac |-> Strip(rounded.digits)]

\* the i-th digit after the point
Digit(x, i) == IF i <= Len(x.frac) THEN x.frac[i] ELSE 0

\* x < y
Decimal_lt(x, y) ==
  \/ x.int < y.int
  \/ /\ x.int = y.int
     /\ \E i \in 1..Len(y.frac) :
          /\ Digit(x, i) < y.frac[i]
          /\ \A j \in 1..(i - 1) : Digit(x, j) = y.frac[j]

\* x <= y
Decimal_le(x, y) == x = y \/ Decimal_lt(x, y)

\* BaseSalaryCalculatorMixin.__init__: a falsy base (None, 0) keeps the class
\* attribute
BaseSalaryCalculatorMixin_init(kind, threshold, base) ==
  [kind |-> kind, threshold |-> threshold,
   BASE_SALARY |-> IF base # 0 THEN base ELSE BASE_SALARY]

\* SalaryBetween.__init__: super().__init__(threshold=0, base=base)
SalaryBetween_init(first, second, base) ==
  [kind |-> "SalaryBetween", threshold |-> 0, first |-> first, second |-> second,
   BASE_SALARY |-> IF base # 0 THEN base ELSE BASE_SALARY]

\* calculate(sanitize(raw_salary)) = raw_salary / self.BASE_SALARY
calculate(node, raw_salary) == Decimal_div(raw_salary, node.BASE_SALARY)

\* mutant: >= for >
AtLeast_is_satisfied_by(node, candidate) ==
  IF "salario_bruto" \notin DOMAIN candidate THEN "KeyError"
  ELSE Bool(Decimal_le(Decimal_of(node.threshold),
                       calculate(node, candidate["salario_bruto"])))

SalaryGreaterThan_is_satisfied_by(node, candidate) ==
  IF "salario_bruto" \notin DOMAIN candidate THEN "KeyError"
  ELSE Bool(Decimal_lt(Decimal_of(node.threshold),
                       calculate(node, candidate["salario_bruto"])))

SalaryLessThan_is_satisfied_by(node, candidate) ==
  IF "salario_bruto" \notin DOMAIN candidate THEN "KeyError"
  ELSE Bool(Decimal_lt(calculate(node, candidate["salario_bruto"]),
                       Decimal_of(node.threshold)))

SalaryBetween_is_satisfied_by(node, candidate) ==
  IF "salario_bruto" \notin DOMAIN candidate THEN "KeyError"
  ELSE LET salaries == calculate(node, candidate["salario_bruto"])
       IN  Bool(Decimal_le(Decimal_of(node.first), salaries)
                /\ Decimal_le(salaries, Decimal_of(node.second)))

SalaryKinds == {"SalaryGreaterThan", "SalaryLessThan", "SalaryBetween"}

\* ------------------------------------------------------------ tenure leaves
\* An instant is a calendar date <<year, month, day>> at midnight.
\* days since 1970-01-01 of a date of the proleptic Gregorian calendar
DaysFromCivil(t) ==
  LET y == IF t[2] <= 2 THEN t[1] - 1 ELSE t[1]
      era == y \div 400
      yoe == y - era * 400
      mp == IF t[2] > 2 THEN t[2] - 3 ELSE t[2] + 9
      doy == (153 * mp + 2) \div 5 + t[3] - 1
      doe == yoe * 365 + yoe \div 4 - yoe \div 100 + doy
  IN  era * 146097 + doe - 719468

Before(t, u) == DaysFromCivil(t) < DaysFromCivil(u)

\* admission.diff(frozen).in_years(): the whole years of the absolute period
in_years(admission, frozen) ==
  LET a == IF Before(frozen, admission) THEN frozen ELSE admission
      b == IF Before(frozen, admission) THEN admission ELSE frozen
      borrow == b[2] < a[2] \/ (b[2] = a[2] /\ b[3] < a[3])
  IN  b[1] - a[1] - (IF borrow THEN 1 ELSE 0)

\* admission.diff(frozen).in_days(): the whole days of the absolute period
in_days(admission, frozen) ==
  LET n == DaysFromCivil(frozen) - DaysFromCivil(admission)
  IN  IF n < 0 THEN -n ELSE n

\* BASE_DAYS_ON_YEAR = 365
BASE_DAYS_ON_YEAR == 365

\* AdmissionTimeInYearsLessThan / GreaterThan.__init__: current_time is a date
\* or <<>> (None); clock is pendulum.now() at the call
AdmissionTimeInYears_init(kind, threshold, current_time, clock) ==
  [kind |-> kind, threshold |-> threshold,
   frozen |-> IF current_time # <<>> THEN current_time ELSE clock]

AdmissionTimeInYearsBetween_init(initial, final, current_time, clock) ==
  [kind |-> "AdmissionTimeInYearsBetween",
   initial_threshold |-> initial * BASE_DAYS_ON_YEAR,
   end_threshold |-> final * BASE_DAYS_ON_YEAR,
   frozen |-> IF current_time # <<>> THEN current_time ELSE clock]

\* mutant: the clock is read at evaluation
Unfrozen_is_satisfied_by(node, candidate) ==
  IF "data_de_admissao" \notin DOMAIN candidate THEN "KeyError"
  ELSE Bool(in_years(candidate["data_de_admissao"], now) < node.threshold)

AdmissionTimeInYearsLessThan_is_satisfied_by(node, candidate) ==
  IF "data_de_admissao" \notin DOMAIN candidate THEN "KeyError"
  ELSE Bool(in_years(candidate["data_de_admissao"], node.frozen) < node.threshold)

AdmissionTimeInYearsGreaterThan_is_satisfied_by(node, candidate) ==
  IF "data_de_admissao" \notin DOMAIN candidate THEN "KeyError"
  ELSE Bool(in_years(candidate["data_de_admissao"], node.frozen) >= node.threshold)

AdmissionTimeInYearsBetween_is_satisfied_by(node, candidate) ==
  IF "data_de_admissao" \notin DOMAIN candidate THEN "KeyError"
  ELSE LET diff_in_years == in_days(candidate["data_de_admissao"], node.frozen)
       IN  Bool(node.initial_threshold < diff_in_years
                /\ diff_in_years < node.end_threshold)

TenureKinds ==
  {"AdmissionTimeInYearsLessThan", "AdmissionTimeInYearsGreaterThan",
   "AdmissionTimeInYearsBetween"}

\* is_satisfied_by of a node that holds no other node
Leaf_is_satisfied_by(node, candidate) ==
  CASE node.kind = "TrueSpecification" -> "True"
    [] node.kind = "FalseSpecification" -> "False"
    [] node.kind \in DepartmentKinds -> Department_is_satisfied_by(node, candidate)
    [] node.kind = "Trainee" -> Trainee_is_satisfied_by(node, candidate)
    [] node.kind = "SalaryGreaterThan" -> SalaryGreaterThan_is_satisfied_by(node, candidate)
    [] node.kind = "SalaryLessThan" -> SalaryLessThan_is_satisfied_by(node, candidate)
    [] node.kind = "SalaryBetween" -> SalaryBetween_is_satisfied_by(node, candidate)
    [] node.kind = "AdmissionTimeInYearsLessThan" ->
         AdmissionTimeInYearsLessThan_is_satisfied_by(node, candidate)
    [] node.kind = "AdmissionTimeInYearsGreaterThan" ->
         AdmissionTimeInYearsGreaterThan_is_satisfied_by(node, candidate)
    [] node.kind = "AdmissionTimeInYearsBetween" ->
         AdmissionTimeInYearsBetween_is_satisfied_by(node, candidate)
    [] OTHER -> "NotImplementedError"

\* ------------------------------------------------------------ the algebra
CompositeKinds == {"And", "Or", "Xor", "Invert"}

\* the nodes a node holds, in evaluation order
Children(node) ==
  CASE node.kind \in {"And", "Or"} -> node.specifications
    [] node.kind = "Xor" -> <<node.left, node.right>>
    [] node.kind = "Invert" -> <<node.specification>>
    [] OTHER -> <<>>

\* all([...]) / any([...]) of evaluations none of which raised
all(rs) == Bool(\A i \in 1..Len(rs) : rs[i] = "True")
any(rs) == Bool(\E i \in 1..Len(rs) : rs[i] = "True")

And_is_satisfied_by(rs) == IF Raised(rs) # "" THEN Raised(rs) ELSE all(rs)

\* mutant: any(...) over a generator stops at the first True
RECURSIVE ShortCircuitAny(_)
ShortCircuitAny(rs) ==
  IF rs = <<>> THEN "False"
  ELSE IF Head(rs) = "False" THEN ShortCircuitAny(Tail(rs)) ELSE Head(rs)

Or_is_satisfied_by(rs) == IF Raised(rs) # "" THEN Raised(rs) ELSE any(rs)

Invert_is_satisfied_by(rs) == IF Raised(rs) # "" THEN Raised(rs) ELSE Bool(rs[1] # "True")

\* left ^ right: the left operand is evaluated first
Xor_is_satisfied_by(rs) ==
  IF rs[1] \in Exceptions THEN rs[1]
  ELSE IF rs[2] \in Exceptions THEN rs[2] ELSE Bool(rs[1] # rs[2])

\* the result of a composite from its children's results, in order
Combine(kind, rs) ==
  CASE kind = "And" -> And_is_satisfied_by(rs)
    [] kind = "Or" -> Or_is_satisfied_by(rs)
    [] kind = "Xor" -> Xor_is_satisfied_by(rs)
    [] kind = "Invert" -> Invert_is_satisfied_by(rs)

\* is_satisfied_by by recursive descent.  stack is the set of nodes whose
\* evaluation is in progress: meeting one of them again, the descent repeats
\* itself without end and Python raises RecursionError.
RECURSIVE Eval(_, _, _, _)
Eval(h, n, candidate, stack) ==
  IF n \in stack THEN "RecursionError"
  ELSE IF h[n].kind \notin CompositeKinds THEN Leaf_is_satisfied_by(h[n], candidate)
  ELSE LET cs == Children(h[n])
           rs == [i \in 1..Len(cs) |-> Eval(h, cs[i], candidate, stack \cup {n})]
       IN  Combine(h[n].kind, rs)

is_satisfied_by(h, n, candidate) == Eval(h, n, candidate, {})

\* the elements of cs at the positions where rs is "False", in order
RECURSIVE NonSatisfied(_, _)
NonSatisfied(cs, rs) ==
  IF cs = <<>> THEN <<>>
  ELSE (IF Head(rs) = "False" THEN <<Head(cs)>> ELSE <<>>)
       \o NonSatisfied(Tail(cs), Tail(rs))

\* A call's outcome: out is "None", "node" (an object, whose identity is node),
\* "True" / "False", or the exception raised; heap is the heap the call leaves.
Outcome(out, node, h) == [out |-> out, node |-> node, heap |-> h]

\* mutant: the branches of the default remainder exchanged
Swapped_remainder(h, n, r) ==
  IF r = "True" THEN Outcome("node", n, h) ELSE Outcome("None", 0, h)

\* Specification.remainder_unsatisfied_by once self.is_satisfied_by returned r
Specification_remainder(h, n, r) ==
  IF r = "True" THEN Outcome("None", 0, h) ELSE Outcome("node", n, h)

\* Specification.remainder_unsatisfied_by
Specification_remainder_unsatisfied_by(h, n, candidate) ==
  LET r == is_satisfied_by(h, n, candidate)
  IN  IF r \in Exceptions THEN Outcome(r, 0, h) ELSE Specification_remainder(h, n, r)

\* mutant: a single unsatisfied child is not unwrapped
Wrapping_remainder(h, n, cs, rs) ==
  LET non_satisfied == NonSatisfied(cs, rs)
  IN  IF non_satisfied = <<>> THEN Outcome("None", 0, h)
      ELSE IF Len(non_satisfied) = Len(cs) THEN Outcome("node", n, h)
      ELSE Outcome("node", Len(h) + 1,
                   Append(h, [kind |-> "And", specifications |-> non_satisfied]))

\* mutant: self keeps the unsatisfied children and is returned
Narrowing_remainder(h, n, cs, rs) ==
  LET non_satisfied == NonSatisfied(cs, rs)
  IN  IF non_satisfied = <<>> THEN Outcome("None", 0, h)
      ELSE IF Len(non_satisfied) = 1 THEN Outcome("node", non_satisfied[1], h)
      ELSE Outcome("node", n, [h EXCEPT ![n].specifications = non_satisfied])

\* And.remainder_unsatisfied_by once the children, cs, have evaluated to rs
And_remainder(h, n, cs, rs) ==
  LET non_satisfied == NonSatisfied(cs, rs)
  IN  IF non_satisfied = <<>> THEN Outcome("None", 0, h)
      ELSE IF Len(non_satisfied) = 1 THEN Outcome("node", non_satisfied[1], h)
      ELSE IF Len(non_satisfied) = Len(cs) THEN Outcome("node", n, h)
      ELSE Outcome("node", Len(h) + 1,
                   Append(h, [kind |-> "And", specifications |-> non_satisfied]))

\* And.remainder_unsatisfied_by
And_remainder_unsatisfied_by(h, n, candidate) ==
  LET cs == h[n].specifications
      rs == [i \in 1..Len(cs) |-> Eval(h, cs[i], candidate, {n})]
  IN  IF Raised(rs) # "" THEN Outcome(Raised(rs), 0, h)
      ELSE And_remainder(h, n, cs, rs)

remainder_unsatisfied_by(h, n, candidate) ==
  IF h[n].kind = "And" THEN And_remainder_unsatisfied_by(h, n, candidate)
  ELSE Specification_remainder_unsatisfied_by(h, n, candidate)

\* Specification.__and__ / __or__ / __xor__ / __invert__: a new node
Specification_and(h, self, other) ==
  Outcome("node", Len(h) + 1,
          Append(h, [kind |-> "And", specifications |-> <<self, other>>]))

Specification_or(h, self, other) ==
  Outcome("node", Len(h) + 1,
          Append(h, [kind |-> "Or", specifications |-> <<self, other>>]))

Specification_xor(h, self, other) ==
  Outcome("node", Len(h) + 1,
          Append(h, [kind |-> "Xor", left |-> self, right |-> other]))

Specification_invert(h, self) ==
  Outcome("node", Len(h) + 1,
          Append(h, [kind |-> "Invert", specification |-> self]))

\* mutant: And.__and__ builds a new node from the merged lists
Copying_and(h, self, other) ==
  Outcome("node", Len(h) + 1,
          Append(h, [kind |-> "And",
                     specifications |->
                       h[self].specifications
                       \o (IF h[other].kind = "And" THEN h[other].specifications
                           ELSE <<other>>)]))

\* And.__and__: self.specifications += ...; return self
And_and(h, self, other) ==
  Outcome("node", self,
          [h EXCEPT ![self].specifications =
             @ \o (IF h[other].kind = "And" THEN h[other].specifications
                   ELSE <<other>>)])

\* mutant: Or.__or__ appends the operand whatever its class
Appending_or(h, self, other) ==
  Outcome("node", self, [h EXCEPT ![self].specifications = @ \o <<other>>])

\* Or.__or__
Or_or(h, self, other) ==
  Outcome("node", self,
          [h EXCEPT ![self].specifications =
             @ \o (IF h[other].kind = "Or" THEN h[other].specifications
                   ELSE <<other>>)])

\* mutant: And does not override __and__
Inherited_and(h, self, other) == Specification_and(h, self, other)

\* self & other, self | other: the method the class of self defines
and(h, self, other) ==
  IF h[self].kind = "And" THEN And_and(h, self, other)
  ELSE Specification_and(h, self, other)

or(h, self, other) ==
  IF h[self].kind = "Or" THEN Or_or(h, self, other)
  ELSE Specification_or(h, self, other)

\* MultaryCompositeSpecification.__init__(*specifications)
MultaryCompositeSpecification_init(h, kind, specifications) ==
  Outcome("node", Len(h) + 1,
          Append(h, [kind |-> kind, specifications |-> specifications]))

\* ------------------------------------------------------------ the program
\* candidates the calls are given; the last has no "area"
Candidates ==
  {[area |-> Tecnologia, cargo |-> ESTAGIARIO],
   [area |-> Tecnologia, cargo |-> Analista],
   [cargo |-> ESTAGIARIO]}

NoCandidate == <<>>

NoCall == [op |-> "", self |-> 0, other |-> 0, arg |-> NoCandidate, out |-> "", node |-> 0]

Epoch == <<2020, 7, 1>>

Nodes == 1..Len(heap)

\* sequences over S of length at most n
RECURSIVE SeqsUpTo(_, _)
SeqsUpTo(S, n) ==
  IF n = 0 THEN {<<>>}
  ELSE LET shorter == SeqsUpTo(S, n - 1)
       IN  shorter \cup {Append(s, x) : s \in {t \in shorter : Len(t) = n - 1}, x \in S}

\* a heap within the bounds
Fits(h) ==
  /\ Len(h) <= MaxNodes
  /\ \A n \in 1..Len(h) : h[n].kind \in {"And", "Or"} => Len(h[n].specifications) <= MaxLen

Returned(op, self, other, candidate, r) ==
  /\ UNCHANGED seen
  /\ Fits(r.heap)
  /\ heap' = r.heap
  /\ ret' = [op |-> op, self |-> self, other |-> other, arg |-> candidate,
             out |-> r.out, node |-> r.node]
  /\ UNCHANGED <<now, call, frames>>

\* two leaves have been constructed
Init ==
  /\ heap = <<[kind |-> "Trainee"], [kind |-> "ITDepartment"]>>
  /\ ret = NoCall
  /\ now = Epoch
  /\ seen = <<>>
  /\ call = <<>>
  /\ frames = <<>>

\* TrueSpecification(), FalseSpecification()
NewNullary ==
  \E kind \in {"TrueSpecification", "FalseSpecification"} :
    Returned(kind, 0, 0, NoCandidate,
             Outcome("node", Len(heap) + 1, Append(heap, [kind |-> kind])))

\* And(*specifications), Or(*specifications)
NewMultary ==
  \E kind \in {"And", "Or"}, specifications \in SeqsUpTo(Nodes, MaxArgs) :
    Returned(kind, 0, 0, specifications,
             MultaryCompositeSpecification_init(heap, kind, specifications))

\* self & other
OpAnd == \E self \in Nodes, other \in Nodes :
  Returned("__and__", self, other, NoCandidate, and(heap, self, other))

\* self | other
OpOr == \E self \in Nodes, other \in Nodes :
  Returned("__or__", self, other, NoCandidate, or(heap, self, other))

\* self ^ other
OpXor == \E self \in Nodes, other \in Nodes :
  Returned("__xor__", self, other, NoCandidate, Specification_xor(heap, self, other))

\* ~self
OpInvert == \E self \in Nodes :
  Returned("__invert__", self, 0, NoCandidate, Specification_invert(heap, self))

\* self.is_satisfied_by(candidate)
CallIsSatisfiedBy == \E self \in Nodes, candidate \in Candidates :
  Returned("is_satisfied_by", self, 0, candidate,
           Outcome(is_satisfied_by(heap, self, candidate), 0, heap))

\* self.remainder_unsatisfied_by(candidate)
CallRemainder == \E self \in Nodes, candidate \in Candidates :
  Returned("remainder_unsatisfied_by", self, 0, candidate,
           remainder_unsatisfied_by(heap, self, candidate))

Next ==
  \/ NewNullary
  \/ NewMultary
  \/ OpAnd
  \/ OpOr
  \/ OpXor
  \/ OpInvert
  \/ CallIsSatisfiedBy
  \/ CallRemainder

Spec == Init /\ [][Next]_vars

\* construction alone, And(...) / Or(...) called directly included
NextBuild == NewNullary \/ NewMultary \/ OpAnd \/ OpOr \/ OpXor \/ OpInvert

SpecBuild == Init /\ [][NextBuild]_vars

\* construction by the four operators alone, from leaves and True / False
NextCompose == NewNullary \/ OpAnd \/ OpOr \/ OpXor \/ OpInvert

SpecCompose == Init /\ [][NextCompose]_vars

\* ------------------------------------------------------------ leaves alone
\* nothing has been constructed
InitLeaves ==
  /\ heap = <<>>
  /\ ret = NoCall
  /\ now = Epoch
  /\ seen = <<>>
  /\ call = <<>>
  /\ frames = <<>>

\* t, k months later
AddMonths(t, k) ==
  <<t[1] + ((t[2] - 1 + k) \div 12), ((t[2] - 1 + k) % 12) + 1, t[3]>>

MonthsSinceEpoch(t) == (t[1] - Epoch[1]) * 12 + t[2] - Epoch[2]

\* half a year passes
Tick ==
  /\ MonthsSinceEpoch(now) < 6 * MaxTicks
  /\ now' = AddMonths(now, 6)
  /\ UNCHANGED <<heap, ret, seen, call, frames>>

TenureThresholds == {2, 3}
TenureIntervals == {<<1, 2>>, <<0, 5>>}
\* current_time: None, or "2024-01-01"
CurrentTimes == {<<>>, <<2024, 1, 1>>}
TenureCandidates ==
  {[data_de_admissao |-> <<2019, 1, 1>>],
   [data_de_admissao |-> <<2020, 1, 15>>],
   [cargo |-> Analista]}

Constructed(kind, args, node) ==
  /\ heap' = Append(heap, node)
  /\ ret' = [op |-> kind, self |-> 0, other |-> 0, arg |-> args,
             out |-> "node", node |-> Len(heap) + 1]
  /\ UNCHANGED <<now, seen, call, frames>>

\* AdmissionTimeInYearsLessThan(threshold, current_time) and ...GreaterThan
NewTenure ==
  /\ Len(heap) < MaxTenure
  /\ \E kind \in {"AdmissionTimeInYearsLessThan", "AdmissionTimeInYearsGreaterThan"},
        threshold \in TenureThresholds, current_time \in CurrentTimes :
       Constructed(kind, <<threshold, current_time>>,
                   AdmissionTimeInYears_init(kind, threshold, current_time, now))

\* AdmissionTimeInYearsBetween(initial, final, current_time)
NewTenureBetween ==
  /\ Len(heap) < MaxTenure
  /\ \E interval \in TenureIntervals, current_time \in CurrentTimes :
       Constructed("AdmissionTimeInYearsBetween", <<interval, current_time>>,
                   AdmissionTimeInYearsBetween_init(interval[1], interval[2],
                                                    current_time, now))

\* the function f with key mapped to value when f has no such key
FirstSeen(f, key, value) ==
  IF key \in DOMAIN f THEN f
  ELSE [k \in DOMAIN f \cup {key} |-> IF k = key THEN value ELSE f[k]]

\* leaf.is_satisfied_by(candidate); remember: whether seen records the result
Evaluate(candidates, remember) ==
  \E self \in Nodes, candidate \in candidates :
    LET out == is_satisfied_by(heap, self, candidate)
    IN  /\ ret' = [op |-> "is_satisfied_by", self |-> self, other |-> 0,
                   arg |-> candidate, out |-> out, node |-> 0]
        /\ seen' = IF remember THEN FirstSeen(seen, <<self, candidate>>, out) ELSE seen
        /\ UNCHANGED <<heap, now, call, frames>>

EvaluateTenure == Evaluate(TenureCandidates, TRUE)

NextTenure == Tick \/ NewTenure \/ NewTenureBetween \/ EvaluateTenure

SpecTenure == InitLeaves /\ [][NextTenure]_vars

SalaryThresholds == {1, 2, 4}
\* base: None (0), 3, or 30000
Bases == {0, 3, 30000}
SalaryCandidates ==
  {[salario_bruto |-> x] :
     x \in {0, 4, 6, 1045, 2090, 2091, 4180, 5225, 29999, 30000, 30001, 60001}}
  \cup {[cargo |-> Analista]}

\* SalaryGreaterThan(threshold, base), SalaryLessThan(threshold, base)
NewSalary ==
  /\ Len(heap) < MaxSalary
  /\ \E kind \in {"SalaryGreaterThan", "SalaryLessThan"},
        threshold \in SalaryThresholds, base \in Bases :
       Constructed(kind, <<threshold, base>>,
                   BaseSalaryCalculatorMixin_init(kind, threshold, base))

\* SalaryBetween(first, second, base)
NewSalaryBetween ==
  /\ Len(heap) < MaxSalary
  /\ \E first \in SalaryThresholds, second \in SalaryThresholds, base \in Bases :
       Constructed("SalaryBetween", <<first, second, base>>,
                   SalaryBetween_init(first, second, base))

EvaluateSalary == Evaluate(SalaryCandidates, FALSE)

NextSalary == NewSalary \/ NewSalaryBetween \/ EvaluateSalary

SpecSalary == InitLeaves /\ [][NextSalary]_vars

\* ------------------------------------------------------------ concurrent callers
\* threads evaluating one tree
NumCallers == 2

Callers == 1..NumCallers

\* p = Trainee(); q = ITDepartment(); n = ~p; a = (q & n) & p; root = a | n
BuiltTree ==
  LET h1 == Specification_invert(<<[kind |-> "Trainee"], [kind |-> "ITDepartment"]>>, 1).heap
      h2 == and(h1, 2, 3).heap
      h3 == and(h2, 4, 1).heap
  IN  or(h3, 4, 3).heap

EvalCandidates ==
  {[area |-> Tecnologia, cargo |-> ESTAGIARIO],
   [area |-> financeiro, cargo |-> Analista],
   [cargo |-> ESTAGIARIO]}

Idle == [op |-> "", self |-> 0, arg |-> NoCandidate, status |-> "idle",
         out |-> "", node |-> 0]

\* the tree is built; no caller has called
InitEval ==
  /\ heap = BuiltTree
  /\ ret = NoCall
  /\ now = Epoch
  /\ seen = <<>>
  /\ call = [k \in Callers |-> Idle]
  /\ frames = [k \in Callers |-> <<>>]

\* the activation of fn on node n: the child list it iterates, read once, and
\* the results collected so far
Frame(fn, n, specifications) ==
  [fn |-> fn, self |-> n, specifications |-> specifications, rs |-> <<>>]

\* the activation a call of op on n starts with.  The default remainder calls
\* self.is_satisfied_by once.
Activation(h, op, n) ==
  IF op = "is_satisfied_by" THEN Frame(op, n, Children(h[n]))
  ELSE IF h[n].kind = "And" THEN Frame(op, n, h[n].specifications)
  ELSE Frame(op, n, <<n>>)

\* caller k calls self.op(candidate)
Call(k) ==
  /\ call[k].status # "running"
  /\ \E op \in {"is_satisfied_by", "remainder_unsatisfied_by"},
        self \in Nodes, candidate \in EvalCandidates :
       /\ call' = [call EXCEPT ![k] = [op |-> op, self |-> self, arg |-> candidate,
                                       status |-> "running", out |-> "", node |-> 0]]
       /\ frames' = [frames EXCEPT ![k] = <<Activation(heap, op, self)>>]
  /\ UNCHANGED <<heap, ret, now, seen>>

\* the call of caller k is over, having returned or raised
Return(k, r) ==
  /\ Len(r.heap) <= Len(BuiltTree) + MaxFresh
  /\ heap' = r.heap
  /\ call' = [call EXCEPT ![k].status = "returned", ![k].out = r.out,
                          ![k].node = r.node]
  /\ frames' = [frames EXCEPT ![k] = <<>>]

\* the top activation of caller k got r from the callee it was waiting for
Deliver(k, stack, r) ==
  IF r \in Exceptions THEN Return(k, Outcome(r, 0, heap))
  ELSE /\ frames' = [frames EXCEPT
                       ![k] = [stack EXCEPT ![Len(stack)].rs = Append(@, r)]]
       /\ UNCHANGED <<heap, call>>

\* the top activation of caller k evaluates its next child: a leaf answers
\* at once, a composite gets an activation of its own
Descend(k) ==
  /\ call[k].status = "running"
  /\ LET stack == frames[k]
         top == stack[Len(stack)]
     IN  /\ Len(top.rs) < Len(top.specifications)
         /\ LET child == top.specifications[Len(top.rs) + 1]
            IN  IF \E i \in 1..Len(stack) :
                     stack[i].fn = "is_satisfied_by" /\ stack[i].self = child
                THEN Return(k, Outcome("RecursionError", 0, heap))
                ELSE IF heap[child].kind \in CompositeKinds
                THEN /\ frames' = [frames EXCEPT
                                     ![k] = Append(stack, Frame("is_satisfied_by", child,
                                                                Children(heap[child])))]
                     /\ UNCHANGED <<heap, call>>
                ELSE Deliver(k, stack, Leaf_is_satisfied_by(heap[child], call[k].arg))
  /\ UNCHANGED <<ret, now, seen>>

\* what the top activation returns, its children evaluated
Result(h, top, candidate) ==
  IF top.fn = "is_satisfied_by"
  THEN Outcome(IF h[top.self].kind \in CompositeKinds
               THEN Combine(h[top.self].kind, top.rs)
               ELSE Leaf_is_satisfied_by(h[top.self], candidate), 0, h)
  ELSE IF h[top.self].kind = "And"
  THEN And_remainder(h, top.self, top.specifications, top.rs)
  ELSE Specification_remainder(h, top.self, top.rs[1])

\* the top activation of caller k returns to its caller
Finish(k) ==
  /\ call[k].status = "running"
  /\ LET stack == frames[k]
         top == stack[Len(stack)]
         r == Result(heap, top, call[k].arg)
     IN  /\ Len(top.rs) = Len(top.specifications)
         /\ IF Len(stack) = 1 THEN Return(k, r)
            ELSE Deliver(k, SubSeq(stack, 1, Len(stack) - 1), r.out)
  /\ UNCHANGED <<ret, now, seen>>

NextEval == \E k \in Callers : Call(k) \/ Descend(k) \/ Finish(k)

SpecEval == InitEval /\ [][NextEval]_vars

\* ------------------------------------------------------------ claims
Booleans == {"True", "False"}

Range(s) == {s[i] : i \in 1..Len(s)}

\* n and every node held, directly or not, by n
RECURSIVE Closure(_, _, _)
Closure(h, frontier, acc) ==
  IF frontier \subseteq acc THEN acc
  ELSE LET new == frontier \ acc
       IN  Closure(h, UNION {Range(Children(h[n])) : n \in new}, acc \cup new)

Descendants(h, n) == Closure(h, {n}, {})

Composition == {"__and__", "__or__", "__xor__", "__invert__"}

\* the step extends its left operand in place
InPlace == \/ ret'.op = "__and__" /\ heap[ret'.self].kind = "And"
           \/ ret'.op = "__or__" /\ heap[ret'.self].kind = "Or"

\* what the truth table gives for the operator of the step
TruthTable(op, sa, sb) ==
  CASE op = "__and__" -> Bool(sa = "True" /\ sb = "True")
    [] op = "__or__" -> Bool(sa = "True" \/ sb = "True")
    [] op = "__xor__" -> Bool(sa # sb)
    [] op = "__invert__" -> Bool(sa # "True")

C1_Step ==
  ret'.op \in Composition =>
    \A c \in Candidates :
      LET sa == is_satisfied_by(heap, ret'.self, c)
          sb == IF ret'.other # 0 THEN is_satisfied_by(heap, ret'.other, c) ELSE "True"
      IN  (sa \in Booleans /\ sb \in Booleans) =>
            is_satisfied_by(heap', ret'.node, c) = TruthTable(ret'.op, sa, sb)

\* C1: the node a composition returns evaluates, for every candidate, to the
\* truth table of its operator applied to what the operands evaluated to
\* before the composition (AND, OR, XOR, NOT; in-place extension included).
C1_TruthTables == [][C1_Step]_vars

\* the associative kind __and__ / __or__ builds
KindOf(op) == IF op = "__and__" THEN "And" ELSE "Or"

\* kind(kind(a, b), c) built on the heap h by the constructor, and evaluated
NestedForm(h, kind, a, b, c, candidate) ==
  LET inner == MultaryCompositeSpecification_init(h, kind, <<a, b>>)
      outer == MultaryCompositeSpecification_init(inner.heap, kind, <<inner.node, c>>)
  IN  is_satisfied_by(outer.heap, outer.node, candidate)

C2_Step ==
  (ret'.op \in {"__and__", "__or__"} /\ heap[ret'.self].kind = KindOf(ret'.op)) =>
    LET self == ret'.self
        other == ret'.other
        kind == KindOf(ret'.op)
        left == heap[self].specifications
    IN  /\ ret'.node = self
        /\ Len(heap') = Len(heap)
        /\ heap'[self].kind = kind
        \* (a OP b) OP c, with a, b, c not of the kind
        /\ (/\ Len(left) = 2
            /\ heap[left[1]].kind # kind
            /\ heap[left[2]].kind # kind
            /\ heap[other].kind # kind) =>
             /\ heap'[self].specifications = <<left[1], left[2], other>>
             /\ \A c \in Candidates :
                  is_satisfied_by(heap', self, c)
                    = NestedForm(heap', kind, left[1], left[2], other, c)
        \* two nodes of the kind
        /\ heap[other].kind = kind =>
             heap'[self].specifications = left \o heap[other].specifications

\* C2: (a AND b) AND c, for a, b, c that are not And nodes, is the one And node
\* of a AND b with child list [a, b, c], and evaluates as And(And(a, b), c)
\* does for every candidate; AND of two And nodes is the left node with the
\* left's children followed by the right's.  The same for OR with Or nodes.
C2_Flattening == [][C2_Step]_vars

\* (a AND b) AND c has just been built
C2_Witness ==
  /\ ret.op = "__and__"
  /\ ret.node = ret.self
  /\ heap[ret.other].kind # "And"
  /\ Len(heap[ret.self].specifications) = 3
  /\ \A i \in 1..3 : heap[heap[ret.self].specifications[i]].kind # "And"

\* what the step's operator returns when it allocates
Wrapped(op, self, other) ==
  CASE op = "__and__" -> [kind |-> "And", specifications |-> <<self, other>>]
    [] op = "__or__" -> [kind |-> "Or", specifications |-> <<self, other>>]
    [] op = "__xor__" -> [kind |-> "Xor", left |-> self, right |-> other]
    [] op = "__invert__" -> [kind |-> "Invert", specification |-> self]

\* the frame of a composition, but for what becomes of the right operand
C6_Frame ==
  /\ InPlace =>
       /\ ret'.node = ret'.self
       /\ Len(heap') = Len(heap)
       /\ \A n \in 1..Len(heap) : n # ret'.self => heap'[n] = heap[n]
       /\ heap'[ret'.self].specifications
            = heap[ret'.self].specifications
              \o (IF heap[ret'.other].kind = heap[ret'.self].kind
                  THEN heap[ret'.other].specifications ELSE <<ret'.other>>)
  /\ ~InPlace =>
       /\ ret'.node = Len(heap) + 1
       /\ heap' = Append(heap, Wrapped(ret'.op, ret'.self, ret'.other))

C6_OriginalStep ==
  ret'.op \in Composition =>
    /\ C6_Frame
    /\ ret'.other # 0 => heap'[ret'.other] = heap[ret'.other]

\* C6 as stated: a composition changes a node only when AND has an And (OR an
\* Or) as left operand, which it returns extended; otherwise it allocates a
\* node wrapping the operands and changes none; the right operand is never
\* changed by any operator.
C6_Original == [][C6_OriginalStep]_vars

C6_AmendedStep ==
  ret'.op \in Composition =>
    /\ C6_Frame
    /\ (ret'.other # 0 /\ ~(InPlace /\ ret'.other = ret'.self)) =>
         heap'[ret'.other] = heap[ret'.other]

\* C6 amended: as C6, the right operand being left unchanged unless it is the
\* very node the operator extends (x AND x with x an And, x OR x with x an Or).
C6_Amended == [][C6_AmendedStep]_vars

\* an And held by an Invert has just been extended in place
C6_Witness ==
  /\ ret.op = "__and__"
  /\ ret.node = ret.self
  /\ Len(heap[ret.self].specifications) = 3
  /\ \E m \in 1..Len(heap) :
       heap[m].kind = "Invert" /\ heap[m].specification = ret.self

\* C10 as stated: no And holds an And, and no Or an Or, as a direct child.
C10_Original ==
  \A n \in 1..Len(heap) :
    heap[n].kind \in {"And", "Or"} =>
      \A i \in 1..Len(heap[n].specifications) :
        heap[heap[n].specifications[i]].kind # heap[n].kind

\* C10 amended: the first child of an And is never an And and the first child
\* of an Or never an Or (a same-kind left operand is always merged); a
\* same-kind node given as right operand to a left operand of another kind
\* stays nested.
C10_Amended ==
  \A n \in 1..Len(heap) :
    (heap[n].kind \in {"And", "Or"} /\ heap[n].specifications # <<>>) =>
      heap[heap[n].specifications[1]].kind # heap[n].kind

\* an And was extended in place and holds an And given as a right operand
C10_Witness ==
  /\ ret.op = "__and__"
  /\ ret.node = ret.self
  /\ \E i \in 2..Len(heap[ret.self].specifications) :
       heap[heap[ret.self].specifications[i]].kind = "And"

C3_Step ==
  (ret'.op = "remainder_unsatisfied_by" /\ heap[ret'.self].kind = "And") =>
    LET A == ret'.self
        cs == heap[A].specifications
        rs == [i \in 1..Len(cs) |-> is_satisfied_by(heap, cs[i], ret'.arg)]
        unsatisfied == {i \in 1..Len(cs) : rs[i] = "False"}
    IN  (\A i \in 1..Len(cs) : rs[i] \in Booleans) =>
          CASE unsatisfied = {} -> ret'.out = "None" /\ heap' = heap
            [] Cardinality(unsatisfied) = 1 ->
                 /\ ret'.out = "node"
                 /\ ret'.node = cs[CHOOSE i \in unsatisfied : TRUE]
                 /\ heap' = heap
            [] Cardinality(unsatisfied) >= 2 /\ Cardinality(unsatisfied) = Len(cs) ->
                 /\ ret'.out = "node"
                 /\ ret'.node = A
                 /\ heap' = heap
            [] OTHER ->
                 /\ ret'.out = "node"
                 /\ ret'.node = Len(heap) + 1
                 /\ heap' = Append(heap, [kind |-> "And",
                                          specifications |-> NonSatisfied(cs, rs)])

\* C3: the remainder of an And node A whose children all evaluate: None when
\* no child is unsatisfied; the one unsatisfied child itself when there is
\* exactly one (A's only child included); A itself when there are two or more
\* children and all are unsatisfied; otherwise a newly allocated And of the
\* unsatisfied children in their order.
C3_AndRemainder == [][C3_Step]_vars

\* an And of three children, two of them unsatisfied, returned a new And of two
C3_Witness ==
  /\ ret.op = "remainder_unsatisfied_by"
  /\ heap[ret.self].kind = "And"
  /\ Len(heap[ret.self].specifications) = 3
  /\ ret.out = "node"
  /\ ret.node = Len(heap)
  /\ ret.node # ret.self
  /\ ret.node \notin Range(heap[ret.self].specifications)
  /\ heap[ret.node].kind = "And"
  /\ Len(heap[ret.node].specifications) = 2

\* C4: remainder_unsatisfied_by returns None exactly when is_satisfied_by is
\* true; a remainder of a node that is no And is the node itself; and a
\* remainder is not satisfied by the candidate.
C4_Remainder ==
  ret.op = "remainder_unsatisfied_by" =>
    /\ (ret.out = "None") <=> (is_satisfied_by(heap, ret.self, ret.arg) = "True")
    /\ (ret.out = "node" /\ heap[ret.self].kind # "And") => ret.node = ret.self
    /\ ret.out = "node" => is_satisfied_by(heap, ret.node, ret.arg) = "False"

\* an And returned a remainder other than itself
C4_Witness ==
  /\ ret.op = "remainder_unsatisfied_by"
  /\ heap[ret.self].kind = "And"
  /\ ret.out = "node"
  /\ ret.node # ret.self

\* the candidate field a leaf reads, "" when it reads none
RequiredField(kind) ==
  CASE kind \in DepartmentKinds -> "area"
    [] kind = "Trainee" -> "cargo"
    [] kind \in SalaryKinds -> "salario_bruto"
    [] kind \in TenureKinds -> "data_de_admissao"
    [] OTHER -> ""

\* n holds, directly or not, a leaf whose field the candidate lacks
LacksField(h, n, candidate) ==
  \E m \in Descendants(h, n) :
    RequiredField(h[m].kind) # "" /\ RequiredField(h[m].kind) \notin DOMAIN candidate

\* no node under n holds itself: n is a tree (with sharing)
IsTree(h, n) ==
  \A m \in Descendants(h, n) : m \notin Closure(h, Range(Children(h[m])), {})

C9_Step ==
  (ret'.op \in {"is_satisfied_by", "remainder_unsatisfied_by"}
   /\ LacksField(heap, ret'.self, ret'.arg)) =>
    /\ ret'.out \in Exceptions
    /\ IsTree(heap, ret'.self) => ret'.out = "KeyError"
    /\ heap' = heap

\* C9: when the candidate lacks the field a leaf reads, is_satisfied_by and
\* remainder_unsatisfied_by of every tree holding that leaf raise (the
\* KeyError of the lookup), whatever the other children evaluate to, and the
\* heap is as before the call.
C9_MissingField == [][C9_Step]_vars

\* an Or whose first child is satisfied raised for its second child
C9_Witness ==
  /\ ret.op = "is_satisfied_by"
  /\ heap[ret.self].kind = "Or"
  /\ Len(heap[ret.self].specifications) >= 2
  /\ is_satisfied_by(heap, heap[ret.self].specifications[1], ret.arg) = "True"
  /\ ret.out = "KeyError"

C7_Step ==
  \* the reference time is the injected one, or the clock's at construction
  /\ (ret'.op \in TenureKinds /\ Len(heap') > Len(heap)) =>
       heap'[ret'.node].frozen = (IF ret'.arg[2] # <<>> THEN ret'.arg[2] ELSE now)
  \* and is never written again
  /\ \A n \in 1..Len(heap) : heap'[n] = heap[n]
  \* an evaluation repeats the first result for the leaf and candidate
  /\ (ret'.op = "is_satisfied_by" /\ now' = now
      /\ <<ret'.self, ret'.arg>> \in DOMAIN seen) =>
       ret'.out = seen[<<ret'.self, ret'.arg>>]

\* C7: a tenure leaf takes its reference time at construction (the injected
\* time, or else the clock's) and keeps it; however the clock advances between
\* evaluations, every evaluation of a leaf against a candidate returns what
\* the first did.
C7_FrozenTime == [][C7_Step]_vars

\* a leaf evaluated after the clock moved on from its reference time, where
\* reading the clock would have given another result
C7_Witness ==
  /\ ret.op = "is_satisfied_by"
  /\ heap[ret.self].kind \in TenureKinds
  /\ ret.out \in Booleans
  /\ heap[ret.self].frozen # now
  /\ Leaf_is_satisfied_by([heap[ret.self] EXCEPT !.frozen = now], ret.arg) # ret.out

\* C8: with ratio = salario_bruto / BASE_SALARY (1045 unless a base is given):
\* SalaryGreaterThan(t) is satisfied exactly when ratio > t, SalaryLessThan(t)
\* exactly when ratio < t, SalaryBetween(a, b) exactly when a <= ratio <= b.
C8_SalaryBounds ==
  /\ ret.op \in SalaryKinds =>
       LET base == ret.arg[Len(ret.arg)]
       IN  heap[ret.node].BASE_SALARY = (IF base # 0 THEN base ELSE 1045)
  /\ (ret.op = "is_satisfied_by" /\ "salario_bruto" \in DOMAIN ret.arg) =>
       LET node == heap[ret.self]
           salary == ret.arg["salario_bruto"]
       IN  CASE node.kind = "SalaryGreaterThan" ->
                  ret.out = Bool(salary > node.threshold * node.BASE_SALARY)
             [] node.kind = "SalaryLessThan" ->
                  ret.out = Bool(salary < node.threshold * node.BASE_SALARY)
             [] node.kind = "SalaryBetween" ->
                  ret.out = Bool(node.first * node.BASE_SALARY <= salary
                                 /\ salary <= node.second * node.BASE_SALARY)

\* SalaryGreaterThan(t) evaluated, unsatisfied, at ratio = t
C8_Witness ==
  /\ ret.op = "is_satisfied_by"
  /\ heap[ret.self].kind = "SalaryGreaterThan"
  /\ "salario_bruto" \in DOMAIN ret.arg
  /\ ret.arg["salario_bruto"] = heap[ret.self].threshold * heap[ret.self].BASE_SALARY
  /\ ret.out = "False"

\* what the call of caller k returns run alone on the heap h
Alone(h, k) ==
  IF call[k].op = "is_satisfied_by"
  THEN Outcome(is_satisfied_by(h, call[k].self, call[k].arg), 0, h)
  ELSE remainder_unsatisfied_by(h, call[k].self, call[k].arg)

C5_Step ==
  /\ \A n \in 1..Len(heap) : heap'[n] = heap[n]
  /\ \A k \in Callers :
       (call[k].status = "running" /\ call'[k].status = "returned") =>
         /\ call'[k].out = Alone(heap, k).out
         /\ call'[k].node = Alone(heap, k).node
         /\ heap' = Alone(heap, k).heap

\* C5: whatever the interleaving of the callers' is_satisfied_by and
\* remainder_unsatisfied_by calls, with different candidates, no step changes
\* a node of the heap, and every call returns what it returns run alone.
C5_Evaluation == [][C5_Step]_vars

\* a caller got a newly allocated remainder while another, with another
\* candidate, is part-way through a call on the same node
C5_Witness ==
  \E k \in Callers, j \in Callers :
    /\ call[k].status = "returned"
    /\ call[k].op = "remainder_unsatisfied_by"
    /\ call[k].node > Len(BuiltTree)
    /\ call[j].status = "running"
    /\ call[j].self = call[k].self
    /\ call[j].arg # call[k].arg
    /\ Len(frames[j][1].rs) >= 1

====
